---------------------------- MODULE Spec2Model ----------------------------
(***************************************************************************)
(* LNURL server (src/server/src/main.rs): the k1 store, the six axum       *)
(* handlers and the detached payment task of withdraw.                     *)
(*                                                                         *)
(* Every HTTP request is one tokio task.  A handler is cut into steps at   *)
(* its lock acquisitions and adapter calls: a step is what the handler     *)
(* does between two points where other tasks can run and observe shared    *)
(* state (the k1 store behind its Mutex, the ClnRpc handle behind its      *)
(* Mutex).  Query parameters are inputs; k1 is drawn when the request      *)
(* arrives, the other parameters at the statement that first reads them.   *)
(*                                                                         *)
(* Tokens are opaque strings that the code only compares for equality, so  *)
(* they are numbered 1..MaxK1.  Uuid::new_v4 and 32 bytes of thread_rng    *)
(* are modelled as generators that never repeat a value (the numbering     *)
(* hands them out in order) and whose values nobody can guess: a caller    *)
(* presents a k1 that a response has carried, or the string Forged, which  *)
(* no generator produces.                                                  *)
(***************************************************************************)
EXTENDS Integers, Sequences, FiniteSets, TLC

\* ------------------------------------------------------------------ bounds
\* HTTP requests the server receives in one run.
MaxReqs == 3
\* Distinct k1 strings (generated by the server or guessed by a caller).
MaxK1 == 2
\* Withdrawals offered before a burst of withdraw callbacks (at most MaxK1).
MaxBurst == 2

\* The k1 strings the generators can produce, and a string no generator produces.
K1s == 1..MaxK1
Forged == 0

\* --------------------------------------------------------------- constants
OK == 200
BAD_REQUEST == 400
UNAUTHORIZED == 401
INTERNAL_SERVER_ERROR == 500
\* the amount bounds withdraw enforces, in millisatoshis
MinEnforcedMsat == 1000
\* WithdrawRequestResponse.minWithdrawable / maxWithdrawable, in msat.
minWithdrawable == 1000
maxWithdrawable == 1000000
MaxEnforcedMsat == 1000000
\* InvoiceRequest.expiry of the client's withdraw flow, in seconds.
InvoiceExpiry == 600
\* secp256k1::constants::PUBLIC_KEY_SIZE: a compressed public key, in bytes.
PUBLIC_KEY_SIZE == 33

\* ------------------------------------------------------------------- state
VARIABLES
    k1_store,     \* HashSet<String> behind state.k1_store
    k1_lock,      \* the request holding the k1_store Mutex, 0 when free
    client_lock,  \* the task holding the ClnRpc Mutex: <<"handler"|"pay", r>>, <<"free", 0>>
    reqs,         \* the requests received so far, in order of arrival
    generated,    \* the k1 values the generators have produced so far
    cli           \* the lnurl-client process run against this server

vars == <<k1_store, k1_lock, client_lock, reqs, generated, cli>>

Free == <<"free", 0>>
Handler(r) == <<"handler", r>>
PayTask(r) == <<"pay", r>>

\* An HTTP response: status code and the JSON body's fields ("-" = absent;
\* meta = mindepth, channel_id, outnum, tx and txid are present).
Resp(code, status, reason, event, meta) ==
    [code |-> code, status |-> status, reason |-> reason, event |-> event, meta |-> meta]
NoResp == Resp(0, "-", "-", "-", FALSE)

\* A signature over msg in one of the two encodings signmessage returns: the
\* DER hex string ("der") and the zbase32 string ("zbase"). They are different
\* strings for the same signature.
Sig(enc, msg) == [enc |-> enc, msg |-> msg]
NoSig == Sig("-", -1)

\* CheckmessageRequest { message, zbase, pubkey }
CheckmessageRequest(message, zbase, pubkey) ==
    [message |-> message, zbase |-> zbase, pubkey |-> pubkey]
NoCheckmessage == CheckmessageRequest(-1, NoSig, "-")

\* A request as the server holds it.
NewReq(handler, k1) ==
    [handler   |-> handler,
     pc        |-> "k1_store_wait",
     k1        |-> k1,
     k1_valid  |-> "-",
     remoteid  |-> "-",
     private   |-> "-",
     pr        |-> "-",
     pubkey    |-> "-",
     signature |-> NoSig,
     checkmessage |-> NoCheckmessage,  \* the CheckmessageRequest built
     rpc       |-> "-",       \* the adapter request the handler has issued
     announce  |-> "-",       \* FundchannelRequest.announce
     rpc_result |-> "-",      \* what the adapter returned to the handler
     msat      |-> -1,        \* decoded.amount_msat, -1 = not decoded / None
     task      |-> "-",       \* the spawned payment task's position
     bolt11    |-> "-",       \* PayRequest.bolt11
     withdrawable |-> <<-1, -1>>,  \* min/maxWithdrawable of the response body
     resp      |-> NoResp]

Ids == 1..Len(reqs)

\* AppState after main has built it: an empty k1_store, the client unlocked.
ServerInit ==
    /\ k1_store = {}
    /\ k1_lock = 0
    /\ client_lock = Free
    /\ reqs = <<>>
    /\ generated = {}


\* ----------------------------------------------------------------- helpers
\* std::collections::HashSet<String>
HashSetInsert(set, k) == set \cup {k}
\* The result of remove ignored: every k1 passes.
HashSetRemovedIgnored(set, k) == TRUE

\* HashSet::remove returns whether the value was present ...
HashSetRemoved(set, k) == k \in set

\* A membership test in place of remove: the value stays.
HashSetContainsOnly(set, k) == set

\* ... and leaves the set without it.
HashSetRemove(set, k) == set \ {k}

\* A generator that returns the same value again.
RepeatedK1 == CHOOSE k \in K1s : \A j \in K1s : k <= j

\* The next value of a generator that never repeats.
NextK1 == CHOOSE k \in K1s \ generated : \A j \in K1s \ generated : k <= j
\* Uuid::new_v4().to_string() (request_channel, request_withdraw)
Uuid_new_v4 == NextK1
\* thread_rng().fill_bytes(32 bytes), hex-encoded (auth_challenge)
RandomHex32 == NextK1

Issuers == {"request_channel", "request_withdraw", "auth_challenge"}
Callbacks == {"open_channel", "withdraw", "auth_response"}

At(r, handler, pc) == reqs[r].handler = handler /\ reqs[r].pc = pc

\* k1 has been issued: a request step has inserted it and answered with it.
Issued(k) ==
    \E i \in Ids : reqs[i].handler \in Issuers /\ reqs[i].k1 = k /\ reqs[i].pc = "done"

\* The k1 a caller can put in a callback's query: one that a response has
\* carried, or one made up.
Presentable == {k \in K1s : Issued(k)} \cup {Forged}

\* A request arrives: the router starts a task for it.
ArriveWith(req) ==
    /\ Len(reqs) < MaxReqs
    /\ reqs' = Append(reqs, req)
Arrive(handler, k1) == ArriveWith(NewReq(handler, k1))

\* The values a query parameter can have where the handler first reads it:
\* the one the request was sent with, or any of `any` for a caller whose query
\* the model has not fixed.
Sent(value, unset, any) == IF value = unset THEN any ELSE {value}

\* state.k1_store.lock().await
LockK1Store(r) ==
    /\ k1_lock = 0
    /\ k1_lock' = r
    /\ reqs' = [reqs EXCEPT ![r].pc = "k1_store_locked"]
    /\ UNCHANGED <<k1_store, client_lock, generated, cli>>

\* The minWithdrawable and maxWithdrawable a handler's response carries.
Withdrawable(handler) ==
    IF handler = "request_withdraw" THEN <<minWithdrawable, maxWithdrawable>>
                                    ELSE <<-1, -1>>

\* { let mut k1_store = ...lock().await; k1_store.insert(k1.clone()); } and the
\* 200 response carrying k1.
InsertK1(r) ==
    /\ k1_lock = r
    /\ k1_store' = HashSetInsert(k1_store, reqs[r].k1)
    /\ k1_lock' = 0
    /\ reqs' = [reqs EXCEPT ![r].pc = "done",
                            ![r].resp = Resp(OK, "-", "-", "-", FALSE),
                            ![r].withdrawable = Withdrawable(reqs[r].handler)]
    /\ UNCHANGED <<client_lock, generated, cli>>

\* state.client.lock().await, then client_guard.call(request): the call is on
\* its way to the node and the guard is held until the handler returns.
LockClientAndCall(r, rpc) ==
    /\ client_lock = Free
    /\ client_lock' = Handler(r)
    /\ reqs' = [reqs EXCEPT ![r].pc = "rpc_in_flight", ![r].rpc = rpc]
    /\ UNCHANGED <<k1_store, k1_lock, generated, cli>>

\* ------------------------------------------------ request-channel (LUD-02)
request_channel_start ==
    /\ K1s \ generated # {}
    /\ Arrive("request_channel", Uuid_new_v4)
    /\ generated' = generated \cup {Uuid_new_v4}
    /\ UNCHANGED <<k1_store, k1_lock, client_lock, cli>>

request_channel_lock(r) ==
    /\ At(r, "request_channel", "k1_store_wait")
    /\ LockK1Store(r)

request_channel_insert(r) ==
    /\ At(r, "request_channel", "k1_store_locked")
    /\ InsertK1(r)

\* FundchannelRequest.announce as open_channel sets it from params.private
\* (Option<bool>: "none", "true", "false").
FundchannelAnnounce(private) == private

\* What the node can answer to FundChannel: the response with mindepth, the
\* response without it (mindepth is an Option), another response type, an error.
FundChannelResults == {"ok", "ok_no_mindepth", "unexpected", "err"}

open_channel_start ==
    /\ \E k1 \in Presentable : Arrive("open_channel", k1)
    /\ UNCHANGED <<k1_store, k1_lock, client_lock, generated, cli>>

open_channel_lock_k1(r) ==
    /\ At(r, "open_channel", "k1_store_wait")
    /\ LockK1Store(r)

\* k1_store.remove(&params.k1), the guard dropped, then the k1_valid test, the
\* remoteid parse and the FundchannelRequest.
open_channel_consume(r) ==
    /\ At(r, "open_channel", "k1_store_locked")
    /\ k1_lock = r
    /\ k1_store' = HashSetRemove(k1_store, reqs[r].k1)
    /\ k1_lock' = 0
    /\ LET k1_valid == HashSetRemoved(k1_store, reqs[r].k1) IN
       IF ~k1_valid
       THEN reqs' = [reqs EXCEPT ![r].k1_valid = "false", ![r].pc = "done",
                       ![r].resp = Resp(BAD_REQUEST, "ERROR",
                                        "Invalid or already used k1", "-", FALSE)]
       ELSE \E remoteid \in {"pubkey", "garbage"} :
              IF remoteid = "garbage"
              THEN reqs' = [reqs EXCEPT ![r].k1_valid = "true", ![r].pc = "done",
                              ![r].remoteid = remoteid,
                              ![r].resp = Resp(BAD_REQUEST, "ERROR",
                                               "Invalid node id: <e>", "-", FALSE)]
              ELSE \E private \in {"none", "true", "false"} :
                     reqs' = [reqs EXCEPT ![r].k1_valid = "true",
                                ![r].pc = "client_wait",
                                ![r].remoteid = remoteid,
                                ![r].private = private,
                                ![r].announce = FundchannelAnnounce(private)]
    /\ UNCHANGED <<client_lock, generated, cli>>

open_channel_fund(r) ==
    /\ At(r, "open_channel", "client_wait")
    /\ LockClientAndCall(r, "FundChannel")

\* The response open_channel builds from the result of FundChannel.
OpenChannelResponse(result) ==
    CASE result = "ok" -> Resp(OK, "OK", "-", "-", TRUE)
      [] result = "ok_no_mindepth" -> NoResp   \* mindepth.unwrap() panics: no response
      [] result = "unexpected" ->
            Resp(INTERNAL_SERVER_ERROR, "ERROR", "Unexpected response type", "-", FALSE)
      [] result = "err" ->
            Resp(INTERNAL_SERVER_ERROR, "ERROR", "Failed to open channel: <e>", "-", FALSE)

open_channel_return(r) ==
    /\ At(r, "open_channel", "rpc_in_flight")
    /\ client_lock = Handler(r)
    /\ \E result \in FundChannelResults :
         reqs' = [reqs EXCEPT ![r].pc = IF result = "ok_no_mindepth" THEN "panicked" ELSE "done",
                              ![r].rpc_result = result,
                              ![r].resp = OpenChannelResponse(result)]
    /\ client_lock' = Free
    /\ UNCHANGED <<k1_store, k1_lock, generated, cli>>

\* ----------------------------------------------- request-withdraw (LUD-03)
request_withdraw_start ==
    /\ K1s \ generated # {}
    /\ Arrive("request_withdraw", Uuid_new_v4)
    /\ generated' = generated \cup {Uuid_new_v4}
    /\ UNCHANGED <<k1_store, k1_lock, client_lock, cli>>

request_withdraw_lock(r) ==
    /\ At(r, "request_withdraw", "k1_store_wait")
    /\ LockK1Store(r)

request_withdraw_insert(r) ==
    /\ At(r, "request_withdraw", "k1_store_locked")
    /\ InsertK1(r)

\* The pr strings a caller sends: not an invoice at all, an invoice without an
\* amount, and invoices for the amounts around the two bounds.
Invoices == {"notaninvoice", "lntb_any", "lntb999", "lntb1000", "lntb500000",
             "lntb1000000", "lntb1000001"}

\* The amount_msat the node's decode reports for an invoice, -1 for none.
DecodedAmountMsat(pr) ==
    CASE pr = "lntb999" -> 999
      [] pr = "lntb1000" -> 1000
      [] pr = "lntb500000" -> 500000
      [] pr = "lntb1000000" -> 1000000
      [] pr = "lntb1000001" -> 1000001
      [] OTHER -> -1

\* What the node can answer to Decode(pr): the decoded invoice (with its amount
\* or with none), another response type, or an error; an error is the only
\* answer to a string that is no invoice.
DecodeResults(pr) ==
    IF pr = "notaninvoice" THEN {"err"} ELSE {"decoded", "unexpected", "err"}

withdraw_start ==
    /\ \E k1 \in Presentable : Arrive("withdraw", k1)
    /\ UNCHANGED <<k1_store, k1_lock, client_lock, generated, cli>>

withdraw_lock_k1(r) ==
    /\ At(r, "withdraw", "k1_store_wait")
    /\ LockK1Store(r)

\* The k1 check without its early return: a refused request goes on to decode.
withdraw_consume_no_return(r) ==
    /\ At(r, "withdraw", "k1_store_locked")
    /\ k1_lock = r
    /\ k1_store' = HashSetRemove(k1_store, reqs[r].k1)
    /\ k1_lock' = 0
    /\ reqs' = [reqs EXCEPT ![r].k1_valid = IF HashSetRemoved(k1_store, reqs[r].k1)
                                            THEN "true" ELSE "false",
                            ![r].pc = "client_wait"]
    /\ UNCHANGED <<client_lock, generated, cli>>

\* The k1 check with the k1_store guard kept past its block, into the wait
\* for the client guard.
withdraw_consume_guard_kept(r) ==
    /\ At(r, "withdraw", "k1_store_locked")
    /\ k1_lock = r
    /\ k1_store' = HashSetRemove(k1_store, reqs[r].k1)
    /\ k1_lock' = k1_lock
    /\ LET k1_valid == HashSetRemoved(k1_store, reqs[r].k1) IN
       IF ~k1_valid
       THEN reqs' = [reqs EXCEPT ![r].k1_valid = "false", ![r].pc = "done",
                       ![r].resp = Resp(BAD_REQUEST, "ERROR",
                                        "Invalid or already used k1", "-", FALSE)]
       ELSE reqs' = [reqs EXCEPT ![r].k1_valid = "true", ![r].pc = "client_wait"]
    /\ UNCHANGED <<client_lock, generated, cli>>

withdraw_consume(r) ==
    /\ At(r, "withdraw", "k1_store_locked")
    /\ k1_lock = r
    /\ k1_store' = HashSetRemove(k1_store, reqs[r].k1)
    /\ k1_lock' = 0
    /\ LET k1_valid == HashSetRemoved(k1_store, reqs[r].k1) IN
       IF ~k1_valid
       THEN reqs' = [reqs EXCEPT ![r].k1_valid = "false", ![r].pc = "done",
                       ![r].resp = Resp(BAD_REQUEST, "ERROR",
                                        "Invalid or already used k1", "-", FALSE)]
       ELSE reqs' = [reqs EXCEPT ![r].k1_valid = "true", ![r].pc = "client_wait"]
    /\ UNCHANGED <<client_lock, generated, cli>>

\* state.client.lock().await and Decode { string: params.pr.clone() }
withdraw_decode(r) ==
    /\ At(r, "withdraw", "client_wait")
    /\ client_lock = Free
    /\ client_lock' = Handler(r)
    /\ \E pr \in Sent(reqs[r].pr, "-", Invoices) :
         reqs' = [reqs EXCEPT ![r].pc = "rpc_in_flight", ![r].rpc = "Decode", ![r].pr = pr]
    /\ UNCHANGED <<k1_store, k1_lock, generated, cli>>

\* The lower bound taken as exclusive.
BelowOrAtMinimum(msat) == msat <= MinEnforcedMsat

\* The upper bound taken as exclusive.
AtOrAboveMaximum(msat) == msat >= MaxEnforcedMsat

\* The two comparisons of withdraw on the decoded amount.
BelowMinimum(msat) == msat < MinEnforcedMsat
ExceedsMaximum(msat) == msat > MaxEnforcedMsat

\* The response withdraw returns early on a Decode result, NoResp when it goes
\* on to pay.
WithdrawRejection(result, msat) ==
    CASE result = "err" -> Resp(BAD_REQUEST, "ERROR", "Invalid invoice: <e>", "-", FALSE)
      [] result = "unexpected" ->
            Resp(BAD_REQUEST, "ERROR", "Failed to decode invoice", "-", FALSE)
      [] result = "decoded" /\ msat = -1 ->
            Resp(BAD_REQUEST, "ERROR", "Invoice has no amount", "-", FALSE)
      [] result = "decoded" /\ msat # -1 /\ BelowMinimum(msat) ->
            Resp(BAD_REQUEST, "ERROR", "Amount <msat> msat below minimum 1000 msat", "-", FALSE)
      [] result = "decoded" /\ msat # -1 /\ ~BelowMinimum(msat) /\ ExceedsMaximum(msat) ->
            Resp(BAD_REQUEST, "ERROR", "Amount <msat> msat exceeds maximum 1000000 msat",
                 "-", FALSE)
      [] OTHER -> NoResp

\* A limit of one outstanding payment task: nothing is spawned while another
\* task is waiting or paying.
SpawnsPaymentOneAtATime(result, msat) ==
    /\ WithdrawRejection(result, msat) = NoResp
    /\ \A q \in Ids : reqs[q].task \notin {"client_wait", "pay_in_flight"}

\* The payment spawned for whatever decodes, before the amount is looked at.
SpawnsPaymentUnchecked(result, msat) == result = "decoded"

\* Whether withdraw spawns the payment task after this Decode result.
SpawnsPayment(result, msat) == WithdrawRejection(result, msat) = NoResp

\* The Decode call returns: withdraw either returns an error (dropping the
\* client guard) or spawns the payment task, still holding the guard.
withdraw_decoded(r) ==
    /\ At(r, "withdraw", "rpc_in_flight")
    /\ client_lock = Handler(r)
    /\ \E result \in DecodeResults(reqs[r].pr) :
         LET msat == IF result = "decoded" THEN DecodedAmountMsat(reqs[r].pr) ELSE -1 IN
         IF SpawnsPayment(result, msat)
         THEN /\ reqs' = [reqs EXCEPT ![r].pc = "spawned",
                                      ![r].rpc_result = result,
                                      ![r].msat = msat,
                                      ![r].task = "client_wait",
                                      ![r].bolt11 = reqs[r].pr]
              /\ client_lock' = client_lock
         ELSE /\ reqs' = [reqs EXCEPT ![r].pc = "done",
                                      ![r].rpc_result = result,
                                      ![r].msat = msat,
                                      ![r].resp = WithdrawRejection(result, msat)]
              /\ client_lock' = Free
    /\ UNCHANGED <<k1_store, k1_lock, generated, cli>>

\* (StatusCode::OK, {status: "OK"}) and the client guard dropped.
withdraw_return(r) ==
    /\ At(r, "withdraw", "spawned")
    /\ client_lock = Handler(r)
    /\ client_lock' = Free
    /\ reqs' = [reqs EXCEPT ![r].pc = "done",
                            ![r].resp = Resp(OK, "OK", "-", "-", FALSE)]
    /\ UNCHANGED <<k1_store, k1_lock, generated, cli>>

\* A payment task that issues Pay without waiting for the client guard.
pay_call_unlocked(r) ==
    /\ reqs[r].task = "client_wait"
    /\ client_lock' = PayTask(r)
    /\ reqs' = [reqs EXCEPT ![r].task = "pay_in_flight"]
    /\ UNCHANGED <<k1_store, k1_lock, generated, cli>>

\* The spawned task: client_clone.lock().await and Pay { bolt11, .. }
pay_call(r) ==
    /\ reqs[r].task = "client_wait"
    /\ client_lock = Free
    /\ client_lock' = PayTask(r)
    /\ reqs' = [reqs EXCEPT ![r].task = "pay_in_flight"]
    /\ UNCHANGED <<k1_store, k1_lock, generated, cli>>

PayResults == {"paid", "unexpected", "err"}

\* A payment task that reports its failure through the request's response.
PayOutcomeReported(req, result) ==
    [req EXCEPT !.task = result,
                !.resp = IF result = "err"
                         THEN Resp(INTERNAL_SERVER_ERROR, "ERROR",
                                   "Withdraw payment failed: <e>", "-", FALSE)
                         ELSE @]

\* What the outcome of Pay does to the request that spawned the task: the
\* task only prints.
PayOutcome(req, result) == [req EXCEPT !.task = result]

\* The Pay call returns; the task prints the outcome and ends.
pay_return(r) ==
    /\ reqs[r].task = "pay_in_flight"
    /\ client_lock = PayTask(r)
    /\ client_lock' = Free
    /\ \E result \in PayResults :
         reqs' = [reqs EXCEPT ![r] = PayOutcome(reqs[r], result)]
    /\ UNCHANGED <<k1_store, k1_lock, generated, cli>>

\* -------------------------------------------------------- lnurl-auth (LUD-04)
auth_challenge_start ==
    /\ K1s \ generated # {}
    /\ Arrive("auth_challenge", RandomHex32)
    /\ generated' = generated \cup {RandomHex32}
    /\ UNCHANGED <<k1_store, k1_lock, client_lock, cli>>

auth_challenge_lock(r) ==
    /\ At(r, "auth_challenge", "k1_store_wait")
    /\ LockK1Store(r)

auth_challenge_insert(r) ==
    /\ At(r, "auth_challenge", "k1_store_locked")
    /\ InsertK1(r)

\* The signature strings a caller sends: either encoding of a signature over
\* the k1 it presents.
Signatures(k1) == {Sig("zbase", k1), Sig("der", k1)}

auth_response_start ==
    /\ \E k1 \in Presentable : Arrive("auth_response", k1)
    /\ UNCHANGED <<k1_store, k1_lock, client_lock, generated, cli>>

auth_response_lock_k1(r) ==
    /\ At(r, "auth_response", "k1_store_wait")
    /\ LockK1Store(r)

auth_response_consume(r) ==
    /\ At(r, "auth_response", "k1_store_locked")
    /\ k1_lock = r
    /\ k1_store' = HashSetRemove(k1_store, reqs[r].k1)
    /\ k1_lock' = 0
    /\ LET k1_valid == HashSetRemoved(k1_store, reqs[r].k1) IN
       IF ~k1_valid
       THEN reqs' = [reqs EXCEPT ![r].k1_valid = "false", ![r].pc = "done",
                       ![r].resp = Resp(BAD_REQUEST, "ERROR",
                                        "Invalid or expired k1", "-", FALSE)]
       ELSE \E pubkey \in Sent(reqs[r].pubkey, "-", {"pubkey", "garbage"}) :
              IF pubkey = "garbage"
              THEN reqs' = [reqs EXCEPT ![r].k1_valid = "true", ![r].pc = "done",
                              ![r].pubkey = pubkey,
                              ![r].resp = Resp(BAD_REQUEST, "ERROR",
                                               "Invalid pubkey: <e>", "-", FALSE)]
              ELSE \E signature \in Sent(reqs[r].signature, NoSig,
                                         Signatures(reqs[r].k1)) :
                     reqs' = [reqs EXCEPT ![r].k1_valid = "true",
                                ![r].pc = "client_wait",
                                ![r].pubkey = pubkey,
                                ![r].signature = signature,
                                ![r].checkmessage =
                                    CheckmessageRequest(reqs[r].k1, signature, pubkey)]
    /\ UNCHANGED <<client_lock, generated, cli>>

auth_response_check(r) ==
    /\ At(r, "auth_response", "client_wait")
    /\ LockClientAndCall(r, "CheckMessage")

\* What the node can answer to CheckMessage.
\* A string that is not zbase32 (the DER hex one is not) is refused by the
\* node with an error.
CheckMessageResults(zbase) ==
    IF zbase.enc = "zbase" THEN {"verified", "not_verified", "unexpected", "err"}
                           ELSE {"err"}

\* The verified flag not looked at: any CheckMessage response logs in.
AuthResultUnchecked(result) ==
    CASE result \in {"verified", "not_verified"} -> Resp(OK, "OK", "-", "LOGGEDIN", FALSE)
      [] result = "unexpected" ->
            Resp(INTERNAL_SERVER_ERROR, "ERROR", "Unexpected response from checkmessage",
                 "-", FALSE)
      [] result = "err" ->
            Resp(INTERNAL_SERVER_ERROR, "ERROR", "Verification error: <e>", "-", FALSE)

\* The response auth_response builds from the result of CheckMessage.
AuthResult(result) ==
    CASE result = "verified" -> Resp(OK, "OK", "-", "LOGGEDIN", FALSE)
      [] result = "not_verified" ->
            Resp(UNAUTHORIZED, "ERROR", "Signature verification failed", "-", FALSE)
      [] result = "unexpected" ->
            Resp(INTERNAL_SERVER_ERROR, "ERROR", "Unexpected response from checkmessage",
                 "-", FALSE)
      [] result = "err" ->
            Resp(INTERNAL_SERVER_ERROR, "ERROR", "Verification error: <e>", "-", FALSE)

auth_response_return(r) ==
    /\ At(r, "auth_response", "rpc_in_flight")
    /\ client_lock = Handler(r)
    /\ client_lock' = Free
    /\ \E result \in CheckMessageResults(reqs[r].checkmessage.zbase) :
         reqs' = [reqs EXCEPT ![r].pc = "done",
                              ![r].rpc_result = result,
                              ![r].resp = AuthResult(result)]
    /\ UNCHANGED <<k1_store, k1_lock, generated, cli>>

\* ----------------------------------------------------------- lnurl-client
\* The steps of the three commands, in program order: the adapter calls on the
\* client's own node and the HTTP GETs to the server.
channel_request ==
    <<"ClnRpc::new", "Getinfo", "GET request-channel", "Connect", "GET open-channel">>
withdraw_request ==
    <<"ClnRpc::new", "GET request-withdraw", "Invoice", "GET withdraw", "WaitInvoice">>
auth ==
    <<"ClnRpc::new", "Getinfo", "GET auth-challenge", "SignMessage", "GET auth-response">>

Commands == {"request-channel", "request-withdraw", "auth"}
Flow(cmd) ==
    CASE cmd = "request-channel" -> channel_request
      [] cmd = "request-withdraw" -> withdraw_request
      [] cmd = "auth" -> auth
      [] OTHER -> <<>>

IsHttp(step) ==
    step \in {"GET request-channel", "GET open-channel", "GET request-withdraw",
              "GET withdraw", "GET auth-challenge", "GET auth-response"}

IssuingGets == {"GET request-channel", "GET request-withdraw", "GET auth-challenge"}

\* How a step ended: an adapter call returned its response ("ok"), a response
\* of another type ("unexpected") or Err ("err"); a GET was answered with an
\* HTTP status ("http", code) or failed in transport ("err").
Outcome(kind, code) == [kind |-> kind, code |-> code]

\* InvoiceRequest { amount_msat, expiry: Some(..), .. }
InvoiceRequest(amount_msat, expiry) == [amount_msat |-> amount_msat, expiry |-> expiry]
NoInvoiceRequest == InvoiceRequest(-1, -1)

\* The client process: the command, the step it is at, what it has learnt so
\* far, the steps it has executed with their outcomes, and its exit code
\* (-1 while running).
NewClient(cmd) ==
    [cmd       |-> cmd,
     step      |-> 1,
     awaiting  |-> FALSE,      \* a GET is on its way
     sent      |-> <<>>,       \* the requests of this client, as indices of reqs
     trace     |-> <<>>,
     exit      |-> -1,
     pubkey    |-> "-",        \* response.id of Getinfo
     node_uri  |-> <<>>,       \* get_node_uri: "pubkey@host:port"
     k1        |-> -1,         \* resp.k1 / challenge.k1
     withdrawable |-> <<-1, -1>>,
     invoice   |-> NoInvoiceRequest,
     invoice_status |-> "-",   \* the invoice on the client's node: unpaid, expired
     bolt11    |-> "-",        \* inv.bolt11
     message   |-> -1,         \* SignmessageRequest.message
     der       |-> NoSig,      \* resp.signature of SignMessage (only printed)
     zbase     |-> NoSig]      \* the value the SignMessage match evaluates to
NoClient == NewClient("-")

Running == cli.cmd \in Commands /\ cli.exit = -1
\* The request the client sent last, 0 before the first.
LastSent(c) == IF c.sent = <<>> THEN 0 ELSE c.sent[Len(c.sent)]
CurrentStep == Flow(cli.cmd)[cli.step]
Executed(c, outcome) ==
    Append(c.trace, [step |-> Flow(c.cmd)[c.step], outcome |-> outcome])

\* The step succeeded: on to the next one; after the last one the function
\* returns Ok(()) and main ends with exit code 0.
Proceed(c, outcome) ==
    [c EXCEPT !.trace = Executed(c, outcome),
              !.awaiting = FALSE,
              !.step = @ + 1,
              !.exit = IF c.step = Len(Flow(c.cmd)) THEN 0 ELSE -1]

\* A failure that is only printed, the flow going on with its next step.
AbortIgnored(c, outcome) == Proceed(c, outcome)

\* `?` or `return Err(..)`: the function returns the error and main prints it
\* and calls std::process::exit(1).
Abort(c, outcome) ==
    [c EXCEPT !.trace = Executed(c, outcome),
              !.awaiting = FALSE,
              !.exit = 1]

\* The else branches of `if status == "OK"`: eprintln and Ok(()).
PrintFailureAndReturn(c, outcome) ==
    [c EXCEPT !.trace = Executed(c, outcome),
              !.awaiting = FALSE,
              !.step = Len(Flow(c.cmd)) + 1,
              !.exit = 0]

\* The advertised minimum picked as the amount to withdraw.
withdraw_amount_min(withdrawable) == withdrawable[1]

\* let withdraw_amount_msat = resp.maxWithdrawable;
withdraw_amount_msat(withdrawable) == withdrawable[2]

\* The invoice the client's node makes for an amount.
InvoiceFor(msat) == CHOOSE pr \in Invoices : DecodedAmountMsat(pr) = msat

\* The DER encoding put in the place of the zbase one.
SignMessageTakenDer(der, zbase) == der

\* What the match on the SignMessage response evaluates to: resp.zbase.
SignMessageTaken(der, zbase) == zbase

\* The Err with which WaitInvoice reports that the invoice has expired, as
\* against Outcome("err", 0) for a call that failed.
InvoiceExpired == Outcome("err", 1)

\* A wait that the client gives up by itself, the invoice neither paid nor
\* expired.
WaitInvoiceTimedOut(status, paid) == {"err", "expired"}

\* What WaitInvoice can return. The node keeps the call open while the
\* invoice is unpaid and has not expired; it answers with the paid invoice or
\* with the expiry as Err; the call itself can fail at any time.
WaitInvoiceResults(status, paid) ==
    {"err"} \cup (IF status = "expired" THEN {"expired", "unexpected"}
                  ELSE IF paid THEN {"ok", "unexpected"}
                  ELSE {})

\* The server's Pay for the client's invoice has succeeded.
InvoicePaid == LastSent(cli) \in Ids /\ reqs[LastSent(cli)].task = "paid"

\* What the client's node can answer to each adapter call.
ClientAdapterResults(step) ==
    CASE step \in {"ClnRpc::new", "Connect"} -> {"ok", "err"}
      [] step = "WaitInvoice" -> WaitInvoiceResults(cli.invoice_status, InvoicePaid)
      [] OTHER -> {"ok", "err", "unexpected"}

\* Strings the client cuts are sequences of characters; a hex digit is "x".
\* response.id.to_string(): the 33 bytes of the node's public key in hex.
NodePubkeyHex == [i \in 1..66 |-> "x"]
\* "192.168.27.72:49735"
ListeningAddress ==
    <<"1", "9", "2", ".", "1", "6", "8", ".", "2", "7", ".", "7", "2", ":",
      "4", "9", "7", "3", "5">>

\* format!("{}@{}", pubkey, "192.168.27.72:49735")
get_node_uri == NodePubkeyHex \o <<"@">> \o ListeningAddress

\* String::split_off(at): what stays in the string is its first `at` bytes.
split_off(string, at) == SubSeq(string, 1, at)

\* params.remoteid.parse::<PublicKey>() of the server: 66 hex digits (of a
\* point on the curve, which a node's own id is).
ParsesAsPublicKey(string) ==
    /\ Len(string) = 66
    /\ \A i \in 1..Len(string) : string[i] = "x"

\* What the client keeps from a successful adapter call.
AdapterResponseKept(c, step) ==
    CASE step = "Getinfo" ->
            [c EXCEPT !.pubkey = "pubkey",
                      !.node_uri = IF c.cmd = "request-channel"
                                   THEN get_node_uri ELSE @]
      [] step = "Invoice" ->
            LET invoice_request ==
                    InvoiceRequest(withdraw_amount_msat(c.withdrawable), InvoiceExpiry)
            IN  [c EXCEPT !.invoice = invoice_request,
                          !.invoice_status = "unpaid",
                          !.bolt11 = InvoiceFor(invoice_request.amount_msat)]
      [] step = "SignMessage" ->
            [c EXCEPT !.message = c.k1,
                      !.der = Sig("der", c.k1),
                      !.zbase = SignMessageTaken(Sig("der", c.k1), Sig("zbase", c.k1))]
      [] OTHER -> c

\* rt.block_on(ln_client.call(..))? and the match on the response.
client_adapter_call ==
    /\ Running
    /\ ~IsHttp(CurrentStep)
    /\ \E result \in ClientAdapterResults(CurrentStep) :
         cli' = CASE result = "err" -> Abort(cli, Outcome("err", 0))
                  [] result = "expired" -> Abort(cli, InvoiceExpired)
                  [] result = "unexpected" /\ CurrentStep = "WaitInvoice" ->
                        Proceed(cli, Outcome("unexpected", 0))
                  [] result = "unexpected" /\ CurrentStep # "WaitInvoice" ->
                        Abort(cli, Outcome("unexpected", 0))
                  [] OTHER -> Proceed(AdapterResponseKept(cli, CurrentStep), Outcome("ok", 0))
    /\ UNCHANGED <<k1_store, k1_lock, client_lock, reqs, generated>>

\* The expiry of the InvoiceRequest passes on the client's node before the
\* invoice has been paid.
invoice_expires ==
    /\ cli.invoice_status = "unpaid"
    /\ ~InvoicePaid
    /\ cli' = [cli EXCEPT !.invoice_status = "expired"]
    /\ UNCHANGED <<k1_store, k1_lock, client_lock, reqs, generated>>

\* let _ = node_uri.split_off(PUBLIC_KEY_SIZE * 2): node_uri as it goes into
\* the remoteid parameter.
SplitOffHost(node_uri) == split_off(node_uri, PUBLIC_KEY_SIZE * 2)

\* The remoteid parameter as the server's parse sorts it.
RemoteId(string) == IF ParsesAsPublicKey(string) THEN "pubkey" ELSE "garbage"

\* The request a GET of the client puts on the server. The query of the
\* open-channel GET carries private=0, which is not a bool for the Query
\* extractor, so that request stops at the extractor.
ClientRequest(c, step) ==
    CASE step = "GET request-channel" -> NewReq("request_channel", Uuid_new_v4)
      [] step = "GET request-withdraw" -> NewReq("request_withdraw", Uuid_new_v4)
      [] step = "GET auth-challenge" -> NewReq("auth_challenge", RandomHex32)
      [] step = "GET open-channel" ->
            [NewReq("open_channel", c.k1) EXCEPT
                !.remoteid = RemoteId(SplitOffHost(c.node_uri)),
                !.private = "0",
                !.pc = "extract"]
      [] step = "GET withdraw" -> [NewReq("withdraw", c.k1) EXCEPT !.pr = c.bolt11]
      [] step = "GET auth-response" ->
            [NewReq("auth_response", c.k1) EXCEPT !.signature = c.zbase,
                                                  !.pubkey = c.pubkey]

\* ureq::get(url).call() sends the request: it reaches the server, or the
\* call fails before it does.
client_http_send ==
    /\ Running
    /\ IsHttp(CurrentStep)
    /\ ~cli.awaiting
    /\ \/ /\ cli' = Abort(cli, Outcome("err", 0))
          /\ UNCHANGED <<reqs, generated>>
       \/ /\ CurrentStep \in IssuingGets => K1s \ generated # {}
          /\ LET req == ClientRequest(cli, CurrentStep) IN
               /\ ArriveWith(req)
               /\ generated' = IF req.handler \in Issuers THEN generated \cup {req.k1}
                                                          ELSE generated
          /\ cli' = [cli EXCEPT !.awaiting = TRUE, !.sent = Append(@, Len(reqs) + 1)]
    /\ UNCHANGED <<k1_store, k1_lock, client_lock>>

\* What the client does with the server's answer: a connection closed without
\* an answer and a 4xx/5xx status are Err of call(); a 200 body is parsed and
\* its status looked at.
HttpAnswer(c, step, req) ==
    CASE req.pc = "panicked" -> Abort(c, Outcome("err", 0))
      [] req.pc # "panicked" /\ req.resp.code >= 400 ->
            Abort(c, Outcome("http", req.resp.code))
      [] OTHER ->
            IF req.handler \in Issuers
            THEN Proceed([c EXCEPT !.k1 = req.k1, !.withdrawable = req.withdrawable],
                         Outcome("http", req.resp.code))
            ELSE IF req.resp.status = "OK"
                 THEN Proceed(c, Outcome("http", req.resp.code))
                 ELSE PrintFailureAndReturn(c, Outcome("http", req.resp.code))

\* call() returns: with the server's answer, or with Err because the
\* connection broke while the client was waiting for it.
client_http_receive ==
    /\ Running
    /\ cli.awaiting
    /\ \/ /\ reqs[LastSent(cli)].pc \in {"done", "panicked"}
          /\ cli' = HttpAnswer(cli, CurrentStep, reqs[LastSent(cli)])
       \/ /\ reqs[LastSent(cli)].pc \notin {"done", "panicked"}
          /\ cli' = Abort(cli, Outcome("err", 0))
    /\ UNCHANGED <<k1_store, k1_lock, client_lock, reqs, generated>>

\* Query<OpenChannelParams>: `private` is Option<bool>, and a value other than
\* "true" or "false" makes the extractor answer 400 before open_channel runs.
Query_OpenChannelParams_rejected(r) ==
    /\ At(r, "open_channel", "extract")
    /\ reqs[r].private \notin {"-", "true", "false"}
    /\ reqs' = [reqs EXCEPT ![r].pc = "done",
                            ![r].resp = Resp(BAD_REQUEST, "-",
                                             "Failed to deserialize query string",
                                             "-", FALSE)]
    /\ UNCHANGED <<k1_store, k1_lock, client_lock, generated, cli>>

\* ------------------------------------------------------------ specification
\* The server on its own, its callers left open; no client process is modelled.
Init == ServerInit /\ cli = NoClient

Next ==
    \/ request_channel_start
    \/ \E r \in Ids : request_channel_lock(r)
    \/ \E r \in Ids : request_channel_insert(r)
    \/ open_channel_start
    \/ \E r \in Ids : open_channel_lock_k1(r)
    \/ \E r \in Ids : open_channel_consume(r)
    \/ \E r \in Ids : open_channel_fund(r)
    \/ \E r \in Ids : open_channel_return(r)
    \/ request_withdraw_start
    \/ \E r \in Ids : request_withdraw_lock(r)
    \/ \E r \in Ids : request_withdraw_insert(r)
    \/ withdraw_start
    \/ \E r \in Ids : withdraw_lock_k1(r)
    \/ \E r \in Ids : withdraw_consume(r)
    \/ \E r \in Ids : withdraw_decode(r)
    \/ \E r \in Ids : withdraw_decoded(r)
    \/ \E r \in Ids : withdraw_return(r)
    \/ \E r \in Ids : pay_call(r)
    \/ \E r \in Ids : pay_return(r)
    \/ auth_challenge_start
    \/ \E r \in Ids : auth_challenge_lock(r)
    \/ \E r \in Ids : auth_challenge_insert(r)
    \/ auth_response_start
    \/ \E r \in Ids : auth_response_lock_k1(r)
    \/ \E r \in Ids : auth_response_consume(r)
    \/ \E r \in Ids : auth_response_check(r)
    \/ \E r \in Ids : auth_response_return(r)

Spec == Init /\ [][Next]_vars

\* A step that ends an adapter call and lets its handler or task run on to the
\* drop of the client guard. At most one is enabled at a time: the holder's.
AdapterReturn ==
    \E r \in Ids :
        \/ open_channel_return(r)
        \/ withdraw_decoded(r)
        \/ withdraw_return(r)
        \/ auth_response_return(r)
        \/ pay_return(r)

\* A payment task gets the client guard and issues its Pay.
PayCall == \E r \in Ids : pay_call(r)

\* The scheduling the runtime provides: an adapter call in flight returns and
\* its caller runs on until it drops the guard (weak fairness), and tokio's
\* Mutex hands the guard over fairly, so payment tasks that find it free again
\* and again are not passed over for ever (strong fairness).
Fairness == WF_vars(AdapterReturn) /\ SF_vars(PayCall)

FairSpec == Spec /\ Fairness

\* The server with one run of lnurl-client as its only caller: the handler
\* steps its requests can take.
ClientInit == ServerInit /\ \E cmd \in Commands : cli = NewClient(cmd)

ClientNext ==
    \/ client_adapter_call
    \/ client_http_send
    \/ client_http_receive
    \/ invoice_expires
    \/ \E r \in Ids : request_channel_lock(r)
    \/ \E r \in Ids : request_channel_insert(r)
    \/ \E r \in Ids : Query_OpenChannelParams_rejected(r)
    \/ \E r \in Ids : request_withdraw_lock(r)
    \/ \E r \in Ids : request_withdraw_insert(r)
    \/ \E r \in Ids : withdraw_lock_k1(r)
    \/ \E r \in Ids : withdraw_consume(r)
    \/ \E r \in Ids : withdraw_decode(r)
    \/ \E r \in Ids : withdraw_decoded(r)
    \/ \E r \in Ids : withdraw_return(r)
    \/ \E r \in Ids : pay_call(r)
    \/ \E r \in Ids : pay_return(r)
    \/ \E r \in Ids : auth_challenge_lock(r)
    \/ \E r \in Ids : auth_challenge_insert(r)
    \/ \E r \in Ids : auth_response_lock_k1(r)
    \/ \E r \in Ids : auth_response_consume(r)
    \/ \E r \in Ids : auth_response_check(r)
    \/ \E r \in Ids : auth_response_return(r)

ClientSpec == ClientInit /\ [][ClientNext]_vars

\* A burst of withdraw callbacks: MaxBurst request-withdraw requests have been
\* answered, their tokens are outstanding, and as many withdraw callbacks as
\* tokens were handed out arrive in any order and at any pace.
BurstInit ==
    /\ k1_store = 1..MaxBurst
    /\ k1_lock = 0
    /\ client_lock = Free
    /\ generated = 1..MaxBurst
    /\ reqs = [i \in 1..MaxBurst |->
                 [NewReq("request_withdraw", i) EXCEPT
                     !.pc = "done",
                     !.resp = Resp(OK, "-", "-", "-", FALSE),
                     !.withdrawable = Withdrawable("request_withdraw")]]
    /\ cli = NoClient

\* The router starts a task for one more withdraw callback of the burst.
withdraw_burst_start ==
    /\ Len(reqs) < 2 * MaxBurst
    /\ \E k1 \in Presentable : reqs' = Append(reqs, NewReq("withdraw", k1))
    /\ UNCHANGED <<k1_store, k1_lock, client_lock, generated, cli>>

BurstNext ==
    \/ withdraw_burst_start
    \/ \E r \in Ids : withdraw_lock_k1(r)
    \/ \E r \in Ids : withdraw_consume(r)
    \/ \E r \in Ids : withdraw_decode(r)
    \/ \E r \in Ids : withdraw_decoded(r)
    \/ \E r \in Ids : withdraw_return(r)
    \/ \E r \in Ids : pay_call(r)
    \/ \E r \in Ids : pay_return(r)

BurstSpec == BurstInit /\ [][BurstNext]_vars

\* ------------------------------------------------------------------ claims
\* The callback requests carrying k1 = k, those that passed the k1 check and
\* those that failed it.
Carrying(k) == {r \in Ids : reqs[r].handler \in Callbacks /\ reqs[r].k1 = k}
Passed(k) == {r \in Carrying(k) : reqs[r].k1_valid = "true"}
Refused(k) == {r \in Carrying(k) : reqs[r].k1_valid = "false"}

\* The invalid-token answer of a callback and the state of a request that got it.
InvalidK1Response(handler) ==
    Resp(400, "ERROR",
         IF handler = "auth_response" THEN "Invalid or expired k1"
                                      ELSE "Invalid or already used k1",
         "-", FALSE)
GotInvalidK1(req) ==
    /\ req.k1_valid = "false"
    /\ req.pc = "done"
    /\ req.resp = InvalidK1Response(req.handler)
    /\ req.rpc = "-"

\* The step in which callback request r runs its k1 check.
ChecksK1(r) ==
    /\ reqs[r].handler \in Callbacks
    /\ reqs[r].k1_valid = "-"
    /\ reqs'[r].k1_valid # "-"

\* C1: of the validate-and-consume steps on an issued k1, the first passes and
\* every later one gets the invalid-token error, and no step of any operation
\* puts a k1 that has passed back into the store.
C1_FirstConsumeOnly ==
    [][ /\ \A r \in Ids :
             ChecksK1(r) =>
                 IF Issued(reqs[r].k1) /\ Passed(reqs[r].k1) = {}
                 THEN reqs'[r].k1_valid = "true"
                 ELSE GotInvalidK1(reqs'[r])
        /\ \A k \in K1s : Passed(k) # {} => k \notin k1_store'
      ]_vars

\* C1's case: a k1 has passed once and a later request carrying it was refused.
C1_Witness ==
    \E k \in K1s : \E r \in Passed(k) : \E q \in Refused(k) : r < q

\* C2: a k1 never passes twice, and once every request carrying an issued k1
\* has run its check, exactly one of them has passed and each of the others has
\* the invalid-token error.
C2_ExactlyOnePasses ==
    \A r \in Ids :
        (reqs[r].handler \in Callbacks /\ reqs[r].k1 \in K1s) =>
            /\ reqs[r].k1_valid = "false" => GotInvalidK1(reqs[r])
            /\ reqs[r].k1_valid = "true" =>
                  \A q \in Ids :
                      (/\ q # r
                       /\ reqs[q].k1 = reqs[r].k1
                       /\ reqs[q].handler \in Callbacks) => reqs[q].k1_valid # "true"
            /\ \E q \in Ids :
                  /\ reqs[q].k1 = reqs[r].k1
                  /\ reqs[q].handler \in Callbacks
                  /\ reqs[q].k1_valid # "false"

\* C2's case: two requests carried the same k1 at once and the one that arrived
\* later reached the store first.
C2_Witness ==
    \E k \in K1s : \E r \in Passed(k) : \E q \in Refused(k) : q < r

\* A FundChannel call was issued on behalf of request r.
Funded(r) == reqs[r].handler = "open_channel" /\ reqs[r].rpc = "FundChannel"

\* C3: at most one FundChannel call is ever issued for a k1, and from the moment
\* the call is issued the k1 is out of the store.
C3_FundAtMostOnce ==
    \A r \in Ids :
        Funded(r) =>
            /\ reqs[r].k1 \notin k1_store
            /\ reqs[r].k1_valid = "true"
            /\ \A q \in Ids : (Funded(q) /\ reqs[q].k1 = reqs[r].k1) => q = r

\* C3's case: a replay was refused while the first funding call is in flight.
C3_Witness ==
    \E k \in K1s : \E r, q \in Carrying(k) :
        /\ Funded(r) /\ reqs[r].pc = "rpc_in_flight"
        /\ reqs[q].handler = "open_channel" /\ GotInvalidK1(reqs[q])

\* Exactly two requests carry k, both open-channel, both answered; the one that
\* passed the check had a parsable remoteid and its funding succeeded.
TwoOpenChannels(k, r, q) ==
    /\ r # q
    /\ reqs[r].handler = "open_channel" /\ reqs[q].handler = "open_channel"
    /\ reqs[r].k1 = k /\ reqs[q].k1 = k
    /\ reqs[r].pc = "done" /\ reqs[q].pc = "done"
    /\ Carrying(k) = {r, q}
    /\ \A x \in {r, q} :
           reqs[x].k1_valid = "true" =>
               reqs[x].remoteid = "pubkey" /\ reqs[x].rpc_result = "ok"

DecodedWithdraw(r) ==
    /\ reqs[r].handler = "withdraw"
    /\ reqs[r].k1_valid = "true"
    /\ reqs[r].rpc_result = "decoded"
    /\ reqs[r].msat # -1
    /\ reqs[r].pc = "done"

\* C5: such a withdraw is answered OK if and only if 1000 <= msat <= 1000000.
C5_AmountBounds ==
    \A r \in Ids :
        DecodedWithdraw(r) =>
            /\ reqs[r].resp.status \in {"OK", "ERROR"}
            /\ reqs[r].resp.status = "OK" <=> (1000 <= reqs[r].msat /\ reqs[r].msat <= 1000000)
            /\ reqs[r].resp.status = "OK" => reqs[r].resp.code = 200

\* C5's case: an invoice for exactly the lower bound was accepted.
C5_Witness ==
    \E r \in Ids : DecodedWithdraw(r) /\ reqs[r].msat = 1000 /\ reqs[r].resp.status = "OK"

\* C6: a payment task exists only for a withdraw that passed the k1 check and
\* decoded an amount in [1000, 1000000]; a withdraw whose invoice has no amount,
\* is out of bounds or fails to decode is answered ERROR and has no payment task.
C6_PayOnlyWhenAccepted ==
    \A r \in Ids :
        /\ reqs[r].task # "-" =>
               /\ reqs[r].handler = "withdraw"
               /\ reqs[r].k1_valid = "true"
               /\ reqs[r].rpc_result = "decoded"
               /\ 1000 <= reqs[r].msat /\ reqs[r].msat <= 1000000
               /\ reqs[r].bolt11 = reqs[r].pr
        /\ (/\ reqs[r].handler = "withdraw"
            /\ reqs[r].rpc_result # "-"
            /\ \/ reqs[r].rpc_result # "decoded"
               \/ reqs[r].msat < 1000
               \/ reqs[r].msat > 1000000)
               => /\ reqs[r].task = "-"
                  /\ reqs[r].pc = "done"
                  /\ reqs[r].resp.status = "ERROR"

\* C6's case: the Pay call of an accepted withdraw is in flight.
C6_Witness ==
    \E r \in Ids : reqs[r].task = "pay_in_flight" /\ client_lock = PayTask(r)

\* A step of a payment task.
PayStep == \E r \in Ids : reqs'[r].task # reqs[r].task /\ reqs[r].task # "-"

\* C7: the answer of an accepted withdraw is 200 {status: OK} whatever the
\* payment task does or has done, and no step of a payment task changes the
\* response of any request.
C7_ResponseIndependentOfPayment ==
    /\ [](\A r \in Ids :
             (reqs[r].handler = "withdraw" /\ reqs[r].task # "-" /\ reqs[r].pc = "done")
                 => reqs[r].resp = Resp(200, "OK", "-", "-", FALSE))
    /\ [][PayStep => \A q \in Ids : reqs'[q].resp = reqs[q].resp /\ reqs'[q].pc = reqs[q].pc]_vars

\* C7's case: the payment of an accepted withdraw has failed.
C7_Witness ==
    \E r \in Ids : reqs[r].task = "err" /\ reqs[r].resp.status = "OK"

\* C8: an auth-response with a valid k1 and a parsable pubkey is answered by the
\* result of CheckMessage alone: verified 200 OK LOGGEDIN, not verified 401
\* "Signature verification failed", any other result of the adapter 500.
C8_AuthOutcome ==
    \A r \in Ids :
        (/\ reqs[r].handler = "auth_response"
         /\ reqs[r].k1_valid = "true"
         /\ reqs[r].pubkey = "pubkey"
         /\ reqs[r].pc = "done")
            => \/ /\ reqs[r].rpc_result = "verified"
                  /\ reqs[r].resp = Resp(200, "OK", "-", "LOGGEDIN", FALSE)
               \/ /\ reqs[r].rpc_result = "not_verified"
                  /\ reqs[r].resp = Resp(401, "ERROR", "Signature verification failed", "-", FALSE)
               \/ /\ reqs[r].rpc_result \in {"err", "unexpected"}
                  /\ reqs[r].resp.code = 500
                  /\ reqs[r].resp.status = "ERROR"
                  /\ reqs[r].resp.event = "-"

\* C8's case: the node answered that the signature is not verified.
C8_Witness ==
    \E r \in Ids :
        /\ reqs[r].handler = "auth_response"
        /\ reqs[r].rpc_result = "not_verified"
        /\ reqs[r].resp.code = 401

\* Request r passed the k1 check and then failed.
FailedAfterConsume(r) ==
    /\ reqs[r].k1_valid = "true"
    /\ \/ reqs[r].pc = "panicked"
       \/ reqs[r].pc = "done" /\ reqs[r].resp.status = "ERROR"

\* C9: after a callback that consumed its k1 has failed, the k1 is not in the
\* store and every other request that carried it has the invalid-token error.
C9_NoRestoreOnFailure ==
    \A r \in Ids :
        (/\ FailedAfterConsume(r)
         /\ reqs[r].handler \in Callbacks
         /\ reqs[r].k1 \in K1s) =>
            /\ reqs[r].k1 \notin k1_store
            /\ \A q \in Ids :
                   (/\ q # r
                    /\ reqs[q].handler \in Callbacks
                    /\ reqs[q].k1 = reqs[r].k1
                    /\ reqs[q].k1_valid # "-") => GotInvalidK1(reqs[q])

\* C9's case: a request failed after consuming its k1 and a request that arrived
\* after it, carrying the same k1, was refused.
C9_Witness ==
    \E k \in K1s : \E r, q \in Carrying(k) :
        /\ FailedAfterConsume(r)
        /\ r < q
        /\ GotInvalidK1(reqs[q])

\* C10: the FundchannelRequest's announce is the inverse of the private flag.
C10_AnnounceIsInverseOfPrivate ==
    \A r \in Ids :
        Funded(r) =>
            /\ reqs[r].private = "true" => reqs[r].announce = "false"
            /\ reqs[r].private = "false" => reqs[r].announce = "true"


\* The tasks with an adapter call in flight (between client.call(..) and its
\* return) and the tasks that are between client.lock().await and the drop of
\* the guard it returned.
InFlight ==
    {Handler(r) : r \in {q \in Ids : reqs[q].pc = "rpc_in_flight"}}
        \cup {PayTask(r) : r \in {q \in Ids : reqs[q].task = "pay_in_flight"}}
GuardHolders ==
    InFlight \cup {Handler(r) : r \in {q \in Ids : reqs[q].pc = "spawned"}}

\* C11: in every reachable state at most one adapter call is in flight, every
\* FundChannel, Decode, CheckMessage and Pay call is made by the task that
\* holds the single client Mutex, and no two tasks (handlers or detached
\* payment tasks) are inside the guard at once.
C11_OneAdapterCallUnderLock ==
    /\ \A r \in Ids :
          /\ reqs[r].pc = "rpc_in_flight" => client_lock = Handler(r) /\ reqs[r].rpc # "-"
          /\ reqs[r].pc = "spawned" => client_lock = Handler(r)
          /\ reqs[r].task = "pay_in_flight" => client_lock = PayTask(r)
    /\ \A r, q \in Ids :
          (/\ reqs[r].pc \in {"rpc_in_flight", "spawned"} \/ reqs[r].task = "pay_in_flight"
           /\ reqs[q].pc \in {"rpc_in_flight", "spawned"} \/ reqs[q].task = "pay_in_flight")
          => /\ r = q
             /\ ~(reqs[r].pc \in {"rpc_in_flight", "spawned"}
                      /\ reqs[r].task = "pay_in_flight")

\* A payment task waits for the guard while the handler that spawned it is
\* still inside it.
C11_Witness ==
    \E r \in Ids :
        /\ reqs[r].task = "client_wait"
        /\ reqs[r].pc = "spawned"
        /\ client_lock = Handler(r)

\* A step of the issuing handlers request_channel, request_withdraw and
\* auth_challenge for request r.
IssueStep(r) ==
    \/ request_channel_lock(r) \/ request_channel_insert(r)
    \/ request_withdraw_lock(r) \/ request_withdraw_insert(r)
    \/ auth_challenge_lock(r) \/ auth_challenge_insert(r)

\* Request r's handler, or the payment task it spawned, gets past its
\* client.lock().await in this step.
PassesClientLock(r) ==
    \/ reqs[r].pc = "client_wait" /\ reqs'[r].pc # "client_wait"
    \/ reqs[r].task = "client_wait" /\ reqs'[r].task # "client_wait"

AdapterFailed(r) == reqs[r].rpc_result \in {"err", "unexpected"}

\* C13 as stated: a handler whose FundChannel, Decode or CheckMessage call
\* failed answers 500 (status ERROR) after that single call, and 400 is kept
\* for validation and parse errors. A Decode failure on a string that is no
\* invoice is read here as a validation error, the reading most favourable to
\* the handler.
C13_AdapterFailureAnswered500 ==
    \A r \in Ids :
        (/\ reqs[r].pc = "done"
         /\ AdapterFailed(r)
         /\ reqs[r].pr # "notaninvoice")
        => /\ reqs[r].resp.code = INTERNAL_SERVER_ERROR
           /\ reqs[r].resp.status = "ERROR"

WithdrawOffer(i) == reqs[i].handler = "request_withdraw" /\ reqs[i].pc = "done"

\* C15: every request-withdraw response carries the same minWithdrawable and
\* maxWithdrawable, and withdraw enforces exactly that range: an invoice whose
\* decoded amount lies inside the advertised range is accepted (the payment is
\* spawned), one whose amount lies outside is answered 400 and never paid.
C15_AdvertisedRangeIsEnforced ==
    \A i \in Ids :
      WithdrawOffer(i) =>
        /\ reqs[i].withdrawable[1] <= reqs[i].withdrawable[2]
        /\ \A j \in Ids : WithdrawOffer(j) => reqs[j].withdrawable = reqs[i].withdrawable
        /\ \A w \in Ids :
              DecodedWithdraw(w) =>
                  LET inside == /\ reqs[i].withdrawable[1] <= reqs[w].msat
                                /\ reqs[w].msat <= reqs[i].withdrawable[2]
                  IN  /\ inside => reqs[w].task # "-" /\ reqs[w].resp.code # BAD_REQUEST
                      /\ ~inside => /\ reqs[w].task = "-"
                                    /\ reqs[w].resp.code = BAD_REQUEST
                                    /\ reqs[w].resp.status = "ERROR"

\* An invoice for exactly the advertised maximum was accepted and answered OK.
C15_Witness ==
    \E i, w \in Ids :
        /\ WithdrawOffer(i)
        /\ DecodedWithdraw(w)
        /\ reqs[w].k1 = reqs[i].k1
        /\ reqs[w].msat = reqs[i].withdrawable[2]
        /\ reqs[w].resp = Resp(OK, "OK", "-", "-", FALSE)

\* C16: the token check looks at the token only, not at the flow: a callback
\* of any of the three flows carrying an issued token is refused if and only
\* if another callback, of whatever flow, has already passed with it; the
\* handler that issued the token plays no part.
C16_TokenNotBoundToFlow ==
    \A r \in Ids :
        (/\ reqs[r].k1_valid # "-"
         /\ reqs[r].k1 \in K1s)
        => (reqs[r].k1_valid = "false"
               <=> \E q \in Ids : /\ q # r
                                   /\ reqs[q].handler \in Callbacks
                                   /\ reqs[q].k1 = reqs[r].k1
                                   /\ reqs[q].k1_valid = "true")

\* A token issued by request_withdraw took an open_channel request to the
\* FundChannel call, and an auth_response presenting it afterwards was refused.
C16_Witness ==
    \E i, r, q \in Ids :
        /\ reqs[i].handler = "request_withdraw"
        /\ reqs[r].handler = "open_channel"
        /\ reqs[q].handler = "auth_response"
        /\ reqs[r].k1 = reqs[i].k1
        /\ reqs[q].k1 = reqs[i].k1
        /\ reqs[r].rpc = "FundChannel"
        /\ GotInvalidK1(reqs[q])

\* C17: in the client's auth flow the message given to SignMessage is the k1
\* the auth-challenge response carried; the signature parameter of the
\* auth-response GET is the zbase encoding of that signature and not the DER
\* one; and the CheckmessageRequest the server builds for that request holds
\* the same k1 as message and the same string as zbase.
C17_AuthSendsZbaseOverToken ==
    (cli.cmd = "auth" /\ cli.sent # <<>>) =>
        LET challenge == reqs[cli.sent[1]] IN
        /\ challenge.handler = "auth_challenge"
        /\ cli.message # -1 =>
              /\ cli.message = challenge.k1
              /\ cli.zbase = Sig("zbase", challenge.k1)
              /\ cli.der = Sig("der", challenge.k1)
        /\ Len(cli.sent) = 2 =>
              LET response == reqs[cli.sent[2]] IN
              /\ response.handler = "auth_response"
              /\ response.k1 = challenge.k1
              /\ response.signature = Sig("zbase", challenge.k1)
              /\ response.signature # cli.der
              /\ response.checkmessage # NoCheckmessage =>
                    /\ response.checkmessage.message = challenge.k1
                    /\ response.checkmessage.zbase = response.signature

\* The server's CheckMessage call for the client's auth-response is in flight.
C17_Witness ==
    /\ cli.cmd = "auth"
    /\ Len(cli.sent) = 2
    /\ reqs[cli.sent[2]].rpc = "CheckMessage"
    /\ reqs[cli.sent[2]].pc = "rpc_in_flight"
    /\ reqs[cli.sent[2]].checkmessage.zbase = cli.zbase

\* A step of the client failed: its adapter call or its GET returned Err, the
\* latter including every 4xx/5xx answer of the server.
Failed(outcome) ==
    \/ outcome.kind = "err"
    \/ outcome.kind = "http" /\ outcome.code >= 400

\* C18: in every command the steps run in program order, each at most once
\* (none is retried, no GET reaches the server twice); a failed step is the
\* last step executed and the process ends with exit code 1; exit code 0 is
\* reached only with no failed step.
C18_ClientFailsFast ==
    /\ \A i \in 1..Len(cli.trace) :
          /\ i <= Len(Flow(cli.cmd))
          /\ cli.trace[i].step = Flow(cli.cmd)[i]
          /\ Failed(cli.trace[i].outcome) => i = Len(cli.trace) /\ cli.exit = 1
    /\ cli.exit = 0 => \A i \in 1..Len(cli.trace) : ~Failed(cli.trace[i].outcome)
    /\ Len(reqs) = Len(cli.sent)
    /\ \A i, j \in Ids : i # j => reqs[i].handler # reqs[j].handler

\* The withdraw callback was answered with a 4xx status: the command ended
\* with exit code 1 and WaitInvoice was never called.
C18_Witness ==
    /\ cli.cmd = "request-withdraw"
    /\ cli.exit = 1
    /\ Len(cli.trace) = 4
    /\ cli.trace[4].step = "GET withdraw"
    /\ cli.trace[4].outcome = Outcome("http", BAD_REQUEST)

\* C19: a callback refused at the k1 check has made no adapter call (no
\* FundChannel, Decode, CheckMessage, no payment task and no Pay), has never
\* been inside the client guard, and has returned.
C19_RefusedMakesNoAdapterCall ==
    \A r \in Ids :
        reqs[r].k1_valid = "false" =>
            /\ reqs[r].pc = "done"
            /\ reqs[r].rpc = "-"
            /\ reqs[r].rpc_result = "-"
            /\ reqs[r].task = "-"
            /\ reqs[r].bolt11 = "-"
            /\ client_lock \notin {Handler(r), PayTask(r)}

\* All three callbacks have been refused, each carrying a token that is not
\* outstanding, while the client guard stayed free.
C19_Witness ==
    /\ client_lock = Free
    /\ \A h \in Callbacks :
          \E r \in Ids : reqs[r].handler = h /\ GotInvalidK1(reqs[r])

\* The positions of a payment task from its Pay call on.
PayCalled == {"pay_in_flight", "paid", "unexpected", "err"}

\* The moves a payment task makes: spawned by the accepting handler, then one
\* Pay call taken with the guard free and the handler returned, then its end.
PayTaskMove(r) ==
    \/ reqs'[r].task = reqs[r].task
    \/ /\ reqs[r].task = "-"
       /\ reqs'[r].task = "client_wait"
       /\ reqs'[r].pc = "spawned"
    \/ /\ reqs[r].task = "client_wait"
       /\ reqs'[r].task = "pay_in_flight"
       /\ reqs[r].pc = "done"
       /\ reqs[r].resp = Resp(OK, "OK", "-", "-", FALSE)
       /\ client_lock = Free
    \/ /\ reqs[r].task = "pay_in_flight"
       /\ reqs'[r].task \in PayCalled \ {"pay_in_flight"}

\* C20: under fair hand-over of the client guard and adapter calls that
\* return, every withdraw that was accepted (its payment task spawned) is
\* eventually followed by the Pay call; there is one such call per accepted
\* request, for the pr string the callback carried, and it starts only after
\* the handler has answered OK and dropped the guard it held for Decode.
C20_AcceptedWithdrawIsPaidOnce ==
    /\ [](\A r \in Ids :
            reqs[r].task \in PayCalled =>
                /\ reqs[r].pc = "done"
                /\ reqs[r].resp = Resp(OK, "OK", "-", "-", FALSE)
                /\ reqs[r].bolt11 = reqs[r].pr
                /\ client_lock # Handler(r))
    /\ [][\A r \in Ids : PayTaskMove(r)]_vars
    /\ \A r \in 1..MaxReqs :
          (r \in Ids /\ reqs[r].task = "client_wait")
              ~> (r \in Ids /\ reqs[r].task \in PayCalled)

\* The Pay call of an accepted withdraw is in flight, after the handler's OK.
C20_Witness ==
    \E r \in Ids :
        /\ reqs[r].handler = "withdraw"
        /\ reqs[r].task = "pay_in_flight"
        /\ client_lock = PayTask(r)
        /\ reqs[r].resp = Resp(OK, "OK", "-", "-", FALSE)


\* The two answers of open_channel after its funding call: the OK with the
\* channel metadata, and an ERROR whose reason carries the adapter's error.
FundedOk(resp) == resp = Resp(OK, "OK", "-", "-", TRUE)
FundFailed(resp) ==
    /\ resp.status = "ERROR"
    /\ resp.reason = "Failed to open channel: <e>"

\* C21 as stated: a FundChannel that returned success is answered 200 OK with
\* mindepth, channel_id, outnum, tx and txid present, one that returned an
\* error is answered ERROR with the adapter's error text, and every request
\* whose funding call has returned has one of these two answers. A response
\* of another type is left out, as the adapter never hands one over.
C21_FundResultAnswered ==
    \A r \in Ids :
        (Funded(r) /\ reqs[r].rpc_result \in {"ok", "ok_no_mindepth", "err"}) =>
            /\ reqs[r].rpc_result \in {"ok", "ok_no_mindepth"} => FundedOk(reqs[r].resp)
            /\ reqs[r].rpc_result = "err" => FundFailed(reqs[r].resp)
            /\ FundedOk(reqs[r].resp) \/ FundFailed(reqs[r].resp)


\* The payment task of request r has been spawned and has not finished.
Outstanding(r) == reqs[r].task \in {"client_wait", "pay_in_flight"}

\* C22: nothing bounds the payment tasks outstanding at once. Whatever the
\* number of tasks already outstanding, a withdraw whose Decode call is in
\* flight on an invoice inside the amount range can spawn one more; every
\* outstanding task belongs to an accepted withdraw of its own; and of the
\* outstanding tasks at most one has its Pay in flight, the others wait at
\* client.lock().await.
C22_OutstandingPaymentsUnbounded ==
    /\ \A r \in Ids :
          /\ Outstanding(r) =>
                /\ reqs[r].handler = "withdraw"
                /\ reqs[r].k1_valid = "true"
                /\ reqs[r].task = "client_wait" \/ client_lock = PayTask(r)
          /\ (/\ At(r, "withdraw", "rpc_in_flight")
              /\ ~BelowMinimum(DecodedAmountMsat(reqs[r].pr))
              /\ ~ExceedsMaximum(DecodedAmountMsat(reqs[r].pr)))
             => ENABLED (withdraw_decoded(r) /\ reqs'[r].task = "client_wait")
    /\ \A r, q \in Ids :
          (reqs[r].task = "pay_in_flight" /\ reqs[q].task = "pay_in_flight") => r = q

\* Every withdrawal offered has been accepted and the payment tasks of all of
\* them are outstanding at once: one has its Pay in flight, the others wait.
C22_Witness ==
    /\ \A k \in 1..MaxBurst : \E r \in Ids : reqs[r].k1 = k /\ Outstanding(r)
    /\ \E r \in Ids : reqs[r].task = "pay_in_flight"
    /\ \E r \in Ids : reqs[r].task = "client_wait" /\ reqs[r].pc = "done"


\* C23: the client's channel flow runs its steps in program order (own
\* identity from Getinfo, GET request-channel, Connect to the uri of the
\* answer, GET open-channel); the open-channel GET is sent only after Connect
\* succeeded and carries the k1 of the request-channel answer; and once Connect
\* has failed the command has ended, no open-channel request exists and the k1
\* handed out is still in k1_store.
C23_ChannelFlowOrder ==
    cli.cmd = "request-channel" =>
        /\ \A i \in 1..Len(cli.trace) :
              i <= Len(channel_request) /\ cli.trace[i].step = channel_request[i]
        /\ \A i \in 1..Len(cli.sent) :
              reqs[cli.sent[i]].handler = <<"request_channel", "open_channel">>[i]
        /\ Len(cli.sent) = 2 =>
              /\ Len(cli.trace) >= 4
              /\ cli.trace[2] = [step |-> "Getinfo", outcome |-> Outcome("ok", 0)]
              /\ cli.trace[3] = [step |-> "GET request-channel",
                                 outcome |-> Outcome("http", OK)]
              /\ cli.trace[4] = [step |-> "Connect", outcome |-> Outcome("ok", 0)]
              /\ reqs[cli.sent[2]].k1 = reqs[cli.sent[1]].k1
        /\ (Len(cli.trace) >= 4 /\ Failed(cli.trace[4].outcome)) =>
              /\ cli.exit = 1
              /\ Len(cli.trace) = 4
              /\ Len(reqs) = 1
              /\ reqs[1].handler = "request_channel"
              /\ reqs[1].k1 \in k1_store

\* Connect failed after the request-channel answer: the command ended with
\* exit code 1 and the k1 of the answer is outstanding.
C23_Witness ==
    /\ cli.cmd = "request-channel"
    /\ Len(cli.trace) = 4
    /\ cli.trace[4] = [step |-> "Connect", outcome |-> Outcome("err", 0)]
    /\ cli.exit = 1
    /\ cli.k1 \in k1_store


\* C24: the client's withdraw flow asks its node for an invoice of exactly
\* the maxWithdrawable of the request-withdraw answer, with an expiry of 600
\* seconds, and sends that invoice to the callback with the k1 of the same
\* answer; when the server's Decode reports the invoice's amount, withdraw
\* finds it inside its bounds, spawns the payment and does not answer 400.
C24_ClientWithdrawsAdvertisedMaximum ==
    (cli.cmd = "request-withdraw" /\ cli.sent # <<>>) =>
        LET offer == reqs[cli.sent[1]] IN
        /\ offer.handler = "request_withdraw"
        /\ cli.invoice # NoInvoiceRequest =>
              /\ cli.invoice.amount_msat = offer.withdrawable[2]
              /\ cli.invoice.expiry = 600
              /\ DecodedAmountMsat(cli.bolt11) = offer.withdrawable[2]
        /\ Len(cli.sent) = 2 =>
              LET callback == reqs[cli.sent[2]] IN
              /\ callback.handler = "withdraw"
              /\ callback.k1 = offer.k1
              /\ callback.pr = cli.bolt11
              /\ callback.rpc_result = "decoded" =>
                    /\ callback.msat = offer.withdrawable[2]
                    /\ callback.task # "-"
                    /\ callback.resp.code # BAD_REQUEST

\* The server decoded the client's invoice, accepted it and answered OK.
C24_Witness ==
    /\ cli.cmd = "request-withdraw"
    /\ Len(cli.sent) = 2
    /\ reqs[cli.sent[2]].rpc_result = "decoded"
    /\ reqs[cli.sent[2]].msat = maxWithdrawable
    /\ reqs[cli.sent[2]].resp = Resp(OK, "OK", "-", "-", FALSE)


\* The client is inside its WaitInvoice call.
AtWaitInvoice ==
    /\ cli.cmd = "request-withdraw"
    /\ cli.exit = -1
    /\ cli.step = 5

\* The server's payment task for the client's invoice has ended without paying.
PaymentFailed ==
    /\ Len(cli.sent) = 2
    /\ reqs[cli.sent[2]].task \in {"err", "unexpected"}

\* C25: the client calls WaitInvoice only after the withdraw callback was
\* answered 200 with status OK; while the invoice is neither paid nor expired
\* the client has no step of its own that ends the wait (no timeout, no
\* cancellation: only a failure of the call itself gets it out); and when the
\* server's payment has failed, a wait that has ended without such a failure
\* has ended after the invoice expired on the client's node.
C25_WaitInvoiceBlocksUntilPaidOrExpired ==
    cli.cmd = "request-withdraw" =>
        /\ (AtWaitInvoice \/ Len(cli.trace) = 5) =>
              /\ cli.trace[4] = [step |-> "GET withdraw", outcome |-> Outcome("http", OK)]
              /\ reqs[cli.sent[2]].resp = Resp(OK, "OK", "-", "-", FALSE)
        /\ (AtWaitInvoice /\ cli.invoice_status = "unpaid" /\ ~InvoicePaid) =>
              ~ENABLED (client_adapter_call /\ cli'.trace[5].outcome # Outcome("err", 0))
        /\ (/\ Len(cli.trace) = 5
            /\ PaymentFailed
            /\ cli.trace[5].outcome # Outcome("err", 0)) =>
              /\ cli.invoice_status = "expired"
              /\ cli.trace[5].outcome \in {InvoiceExpired, Outcome("unexpected", 0)}

\* The server's payment failed, the invoice expired, and only then did the
\* client's wait end, with the expiry as its error.
C25_Witness ==
    /\ PaymentFailed
    /\ Len(cli.trace) = 5
    /\ cli.trace[5] = [step |-> "WaitInvoice", outcome |-> InvoiceExpired]
    /\ cli.exit = 1
    /\ cli.invoice_status = "expired"


CheckStep(r) ==
    \/ open_channel_lock_k1(r) \/ open_channel_consume(r)
    \/ withdraw_lock_k1(r) \/ withdraw_consume(r)
    \/ auth_response_lock_k1(r) \/ auth_response_consume(r)

\* A step of any handler or payment task that has been started.
TaskStep ==
    \/ \E r \in Ids : IssueStep(r) \/ CheckStep(r)
    \/ \E r \in Ids : open_channel_fund(r) \/ withdraw_decode(r) \/ auth_response_check(r)
    \/ PayCall
    \/ AdapterReturn

\* A step with which the holder of the client guard goes on: its adapter
\* call returns, or it returns its answer and drops the guard.
HolderStep(r) ==
    \/ open_channel_return(r) \/ withdraw_decoded(r) \/ withdraw_return(r)
    \/ auth_response_return(r) \/ pay_return(r)

\* Request r's handler or payment task has not come to its end.
Unfinished(r) ==
    \/ reqs[r].pc \notin {"done", "panicked"}
    \/ reqs[r].task \in {"client_wait", "pay_in_flight"}

\* Request r's handler or payment task waits for the client guard or holds it.
AtClientGuard(r) ==
    \/ reqs[r].pc \in {"client_wait", "rpc_in_flight", "spawned"}
    \/ reqs[r].task \in {"client_wait", "pay_in_flight"}

\* C27: the task holding the k1_store lock is inside its insert or remove
\* block and neither waits for nor holds the client guard; no task at the
\* client guard holds the k1_store lock; a token check or issuance can take
\* its next step whenever the k1_store lock is free or its own, whoever holds
\* the client guard; and as long as a handler or payment task is unfinished,
\* some handler or payment task can take a step.
C27_NoLockNesting ==
    /\ k1_lock # 0 =>
          /\ k1_lock \in Ids
          /\ reqs[k1_lock].pc = "k1_store_locked"
          /\ ~AtClientGuard(k1_lock)
          /\ client_lock \notin {Handler(k1_lock), PayTask(k1_lock)}
    /\ \A r \in Ids :
          /\ AtClientGuard(r) => k1_lock # r
          /\ (reqs[r].pc = "k1_store_wait" /\ k1_lock = 0) \/ k1_lock = r
                => ENABLED (IssueStep(r) \/ CheckStep(r))
    /\ (\E r \in Ids : Unfinished(r)) =>
          \/ client_lock # Free /\ ENABLED HolderStep(client_lock[2])
          \/ k1_lock # 0 /\ ENABLED (IssueStep(k1_lock) \/ CheckStep(k1_lock))
          \/ ENABLED TaskStep

\* A handler is inside the client guard with its payment task waiting for
\* it, while another request is inside its k1_store block.
C27_Witness ==
    \E r, q \in Ids :
        /\ reqs[r].pc = "spawned"
        /\ reqs[r].task = "client_wait"
        /\ client_lock = Handler(r)
        /\ reqs[q].handler \in Callbacks
        /\ reqs[q].pc = "k1_store_locked"
        /\ k1_lock = q


\* C28: at most one payment task is ever spawned per k1, and only for a k1
\* that was issued: of the withdraw callbacks carrying the same k1, whether
\* they come one after the other or together, at most one has a payment task,
\* and every other one that has run its check was refused before its invoice
\* was looked at.
C28_OnePaymentPerToken ==
    \A r \in Ids :
        reqs[r].task # "-" =>
            /\ reqs[r].k1 \in K1s
            /\ reqs[r].k1 \notin k1_store
            /\ \A q \in Ids :
                  (q # r /\ reqs[q].k1 = reqs[r].k1 /\ reqs[q].handler \in Callbacks) =>
                      /\ reqs[q].task = "-"
                      /\ reqs[q].bolt11 = "-"
                      /\ reqs[q].k1_valid # "true"
                      /\ reqs[q].k1_valid = "false" => reqs[q].pr = "-"

\* Two withdraw callbacks carried the same k1 at the same time: the one that
\* arrived later won the race and its Pay is in flight; the other was refused.
C28_Witness ==
    \E r, q \in Ids :
        /\ q < r
        /\ reqs[r].handler = "withdraw" /\ reqs[q].handler = "withdraw"
        /\ reqs[r].k1 = reqs[q].k1
        /\ reqs[r].task = "pay_in_flight"
        /\ GotInvalidK1(reqs[q])


\* Some callback carrying k has passed the k1 check.
Consumed(k) ==
    \E r \in Ids : /\ reqs[r].handler \in Callbacks
                   /\ reqs[r].k1 = k
                   /\ reqs[r].k1_valid = "true"

\* C29: in every reachable state k1_store holds exactly the k1 values that
\* were issued and that no callback has consumed. So a k1 that was never
\* issued fails every check; a check that fails leaves the store as it was
\* (the equation holds before and after it, with the same issued and consumed
\* values); and a k1 that was issued and never presented is in the store in
\* every later state, as nothing but a passing check takes a k1 out.
C29_StoreIsIssuedMinusConsumed ==
    /\ Forged \notin k1_store
    /\ \A k \in K1s : k \in k1_store <=> (Issued(k) /\ ~Consumed(k))
    /\ \A r \in Ids :
          /\ reqs[r].k1_valid = "true" => reqs[r].k1 \in K1s /\ Issued(reqs[r].k1)
          /\ (reqs[r].k1 = Forged /\ reqs[r].k1_valid # "-") => GotInvalidK1(reqs[r])

\* A k1 that was issued and never presented is outstanding while a callback
\* with a made-up k1 has been refused and every request has been answered.
C29_Witness ==
    /\ \E k \in k1_store : Issued(k) /\ \A r \in Ids : ~(reqs[r].handler \in Callbacks /\ reqs[r].k1 = k)
    /\ \E r \in Ids : reqs[r].k1 = Forged /\ GotInvalidK1(reqs[r])
    /\ Len(reqs) = MaxReqs
    /\ \A r \in Ids : ~Unfinished(r)

=============================================================================
